---- MODULE Spec2Model ----
(***************************************************************************)
(* Portals Market proxy (src/reload.py): a FastAPI application whose       *)
(* eleven route handlers forward to one upstream API over a shared         *)
(* httpx.AsyncClient built by the startup hook and closed by the shutdown  *)
(* hook.                                                                   *)
(*                                                                         *)
(* The state is the module global `client`, the application's lifespan     *)
(* and one record per inbound request.  A handler is two steps, split at   *)
(* its only suspension point (`await client.get/post`): Dispatch runs the  *)
(* handler up to the await, Respond / TransportFail resume it.  Receive is *)
(* the framework's routing and parameter validation, which runs before     *)
(* the handler is entered.                                                 *)
(***************************************************************************)
EXTENDS Integers, Sequences, FiniteSets, TLC

\* Number of inbound requests handled concurrently in Spec.
MaxReq == 2

(***************************************************************************)
(* JSON values.  Every value is a record tagged by t, so that two values   *)
(* of different kinds compare unequal.  A number is kept as its literal    *)
(* text, tagged "int" (no fraction) or "float".                            *)
(***************************************************************************)
JNull == [t |-> "null"]
JStr(s) == [t |-> "str", s |-> s]
JInt(s) == [t |-> "int", s |-> s]
JFloat(s) == [t |-> "float", s |-> s]
JBool(b) == [t |-> "bool", b |-> b]
JList(items) == [t |-> "list", items |-> items]
JObj(fields) == [t |-> "obj", fields |-> fields]
\* A response body that is not JSON text: resp.json() raises on it.
NotJson == [t |-> "notjson"]

(***************************************************************************)
(* Declared field types of the pydantic models.  k is the base type (a     *)
(* scalar kind or a model name), opt is Optional[...], list is List[...].  *)
(***************************************************************************)
Ty(k) == [k |-> k, opt |-> FALSE, list |-> FALSE]
Opt(k) == [k |-> k, opt |-> TRUE, list |-> FALSE]
ListOf(k) == [k |-> k, opt |-> FALSE, list |-> TRUE]

ConfigResponse ==
    [commission |-> Ty("str"), user_cashback |-> Ty("str"),
     deposit_wallet |-> Ty("str"), usdt_course |-> Ty("str")]

WalletLimits ==
    [max_per_transaction |-> Ty("str"), max_daily |-> Ty("str"),
     daily_used |-> Ty("str"), daily_remaining |-> Ty("str")]

NFTAttribute ==
    [type |-> Ty("str"), value |-> Ty("any"), rarity_per_mille |-> Ty("float")]

NFTInfo ==
    [id |-> Ty("str"), name |-> Ty("str"), photo_url |-> Opt("str"),
     collection_id |-> Ty("str"), external_collection_number |-> Ty("int"),
     status |-> Ty("str"), animation_url |-> Opt("str"),
     has_animation |-> Ty("bool"), attributes |-> ListOf("NFTAttribute"),
     emoji_id |-> Opt("str"), is_owned |-> Opt("bool"),
     floor_price |-> Opt("str")]

WalletAction ==
    [type |-> Ty("str"), from_wallet |-> Ty("str"), added_at |-> Ty("str"),
     amount |-> Ty("str"), tx_hash |-> Opt("str"), tx_lt |-> Opt("str"),
     balance_before |-> Ty("str"), balance_after |-> Ty("str"),
     related_entity_id |-> Opt("str"), related_entity_type |-> Opt("str"),
     description |-> Ty("str"), nft |-> Opt("NFTInfo")]

WalletHistoryResponse == [actions |-> ListOf("WalletAction")]

WalletBalance == [balance |-> Ty("str"), frozen_funds |-> Ty("str")]

NFTItem ==
    [id |-> Ty("str"), tg_id |-> Ty("str"), collection_id |-> Ty("str"),
     external_collection_number |-> Ty("int"), name |-> Ty("str"),
     photo_url |-> Opt("str"), price |-> Opt("str"),
     attributes |-> ListOf("NFTAttribute"), listed_at |-> Ty("str"),
     status |-> Ty("str"), animation_url |-> Opt("str"),
     emoji_id |-> Opt("str"), has_animation |-> Ty("bool"),
     unlocks_at |-> Ty("str")]

NFTListResponse == [nfts |-> ListOf("NFTItem")]

Backdrop ==
    [name |-> Ty("str"), url |-> Ty("str"), centerColor |-> Ty("int"),
     edgeColor |-> Ty("int"), patternColor |-> Ty("int"),
     textColor |-> Ty("int"), rarityPermille |-> Ty("float"),
     hex |-> Ty("dict")]

FloorPricesResponse == [floorPrices |-> Ty("dict")]

UserActionMetadata ==
    [seller_revenue |-> Opt("str"), cashback_amount |-> Opt("str")]

UserAction ==
    [initiator_user_id |-> Ty("int"), nft_id |-> Ty("str"),
     offer_id |-> Opt("str"), type |-> Ty("str"), amount |-> Ty("str"),
     created_at |-> Ty("str"), referrer_revenue |-> Opt("str"),
     collection_id |-> Ty("str"), metadata |-> Ty("UserActionMetadata"),
     nft |-> Opt("NFTInfo")]

UserActionsResponse == [actions |-> ListOf("UserAction")]

ScalarKinds == {"str", "int", "float", "bool", "any", "dict"}

\* The fields a model name declares.
ModelFields(name) ==
    CASE name = "ConfigResponse" -> ConfigResponse
      [] name = "WalletLimits" -> WalletLimits
      [] name = "NFTAttribute" -> NFTAttribute
      [] name = "NFTInfo" -> NFTInfo
      [] name = "WalletAction" -> WalletAction
      [] name = "WalletHistoryResponse" -> WalletHistoryResponse
      [] name = "WalletBalance" -> WalletBalance
      [] name = "NFTItem" -> NFTItem
      [] name = "NFTListResponse" -> NFTListResponse
      [] name = "Backdrop" -> Backdrop
      [] name = "FloorPricesResponse" -> FloorPricesResponse
      [] name = "UserActionMetadata" -> UserActionMetadata
      [] name = "UserAction" -> UserAction
      [] name = "UserActionsResponse" -> UserActionsResponse

BuyPayload == [nft_details |-> ListOf("dict")]

WithdrawPayload == [gift_ids |-> ListOf("str")]

\* Request-body models, looked up like the response models.
PayloadFields(name) ==
    CASE name = "BuyPayload" -> BuyPayload
      [] name = "WithdrawPayload" -> WithdrawPayload

Fields(name) ==
    IF name \in {"BuyPayload", "WithdrawPayload"}
    THEN PayloadFields(name) ELSE ModelFields(name)

(***************************************************************************)
(* Validation of a JSON value against a declared type, as pydantic does it *)
(* for the models above (lax mode).  The result is [ok, v]: v is the       *)
(* value the model serialises back to.  ver is pydantic's major version:   *)
(* the source pins none, and the two differ on a field declared            *)
(* Optional[...] (or Any) without a default, which version 1 treats as     *)
(* defaulting to None and version 2 as required, and on a number given for *)
(* a str field, which version 1 converts and version 2 rejects.            *)
(***************************************************************************)
Ok(v) == [ok |-> TRUE, v |-> v]
Fail == [ok |-> FALSE, v |-> JNull]

\* Number literals occurring in the bodies enumerated below.
IntLiterals == {"7", "137"}
FloatLiterals == {"1.5", "12.5"}

\* int(x) of a float literal (version 1 truncates).
Truncated(s) == IF s = "1.5" THEN "1" ELSE "12"

ValidateScalar(k, v, ver) ==
    CASE k = "any" -> Ok(v)
      [] k = "dict" -> IF v.t = "obj" THEN Ok(v) ELSE Fail
      [] k = "str" ->
            IF v.t = "str" THEN Ok(v)
            ELSE IF v.t \in {"int", "float"} /\ ver = 1 THEN Ok(JStr(v.s))
            ELSE Fail
      [] k = "int" ->
            IF v.t = "int" THEN Ok(v)
            ELSE IF v.t = "str" /\ v.s \in IntLiterals THEN Ok(JInt(v.s))
            ELSE IF v.t = "float" /\ ver = 1 THEN Ok(JInt(Truncated(v.s)))
            ELSE Fail
      [] k = "float" ->
            IF v.t = "float" THEN Ok(v)
            ELSE IF v.t = "int" THEN Ok(JFloat(v.s \o ".0"))
            ELSE IF v.t = "str" /\ v.s \in FloatLiterals THEN Ok(JFloat(v.s))
            ELSE IF v.t = "str" /\ v.s \in IntLiterals
                 THEN Ok(JFloat(v.s \o ".0"))
            ELSE Fail
      [] k = "bool" -> IF v.t = "bool" THEN Ok(v) ELSE Fail

RECURSIVE ValidateType(_, _, _)
RECURSIVE ValidateModel(_, _, _)

\* A field the body does not carry: only version 1 supplies None, and only
\* for Optional[...] and Any.
MissingField(T, ver) ==
    IF ver = 1 /\ ~T.list /\ (T.opt \/ T.k = "any") THEN Ok(JNull) ELSE Fail

ValidateModel(name, v, ver) ==
    IF v.t # "obj" THEN Fail
    ELSE LET decl == Fields(name)
             rs == [f \in DOMAIN decl |->
                      IF f \in DOMAIN v.fields
                      THEN ValidateType(decl[f], v.fields[f], ver)
                      ELSE MissingField(decl[f], ver)]
         IN IF \A f \in DOMAIN decl : rs[f].ok
            THEN Ok(JObj([f \in DOMAIN decl |-> rs[f].v]))
            ELSE Fail

ValidateType(T, v, ver) ==
    IF v.t = "null"
    THEN IF T.opt \/ (T.k = "any" /\ ~T.list) THEN Ok(JNull) ELSE Fail
    ELSE IF T.list
    THEN IF v.t # "list" THEN Fail
         ELSE LET rs == [i \in DOMAIN v.items |->
                           ValidateType(Ty(T.k), v.items[i], ver)]
              IN IF \A i \in DOMAIN v.items : rs[i].ok
                 THEN Ok(JList([i \in DOMAIN v.items |-> rs[i].v]))
                 ELSE Fail
    ELSE IF T.k \in ScalarKinds THEN ValidateScalar(T.k, v, ver)
    ELSE ValidateModel(T.k, v, ver)

(***************************************************************************)
(* The router.  Routes is router.routes in registration order: one entry   *)
(* per @router.get / @router.post decorator, under the router's prefix.    *)
(***************************************************************************)
Prefix == "/market"

Route(method, path, endpoint) ==
    [method |-> method, path |-> Prefix \o path, endpoint |-> endpoint]

Routes ==
    << Route("GET", "/config", "get_config"),
       Route("GET", "/wallets/limits", "get_wallet_limits"),
       Route("GET", "/wallets/history", "get_wallet_history"),
       Route("GET", "/wallets/balance", "get_wallet_balance"),
       Route("GET", "/nfts", "list_nfts"),
       Route("GET", "/nfts/search", "search_nfts"),
       Route("GET", "/nfts/search", "search_nfts"),
       Route("GET", "/collections/backdrops", "get_backdrops"),
       Route("GET", "/collections/backdrops/floor", "get_backdrops_floor"),
       Route("POST", "/nfts/buy", "buy_nfts"),
       Route("POST", "/nfts/withdraw", "withdraw_nfts"),
       Route("GET", "/users/actions", "get_user_actions") >>

\* The registrations a (method, path) pair matches.
Matching(method, path) ==
    {i \in DOMAIN Routes :
        Routes[i].method = method /\ Routes[i].path = path}

\* Routing takes the first registration that matches.
MatchRoute(method, path) ==
    LET m == Matching(method, path)
    IN Routes[CHOOSE i \in m : \A j \in m : i <= j].endpoint

Endpoints == {Routes[i].endpoint : i \in DOMAIN Routes}

\* response_model of each route decorator.
ResponseModel(e) ==
    CASE e = "get_config" -> Ty("ConfigResponse")
      [] e = "get_wallet_limits" -> Ty("WalletLimits")
      [] e = "get_wallet_history" -> Ty("WalletHistoryResponse")
      [] e = "get_wallet_balance" -> Ty("WalletBalance")
      [] e = "list_nfts" -> Ty("NFTListResponse")
      [] e = "search_nfts" -> Ty("any")
      [] e = "get_backdrops" -> ListOf("Backdrop")
      [] e = "get_backdrops_floor" -> Ty("FloorPricesResponse")
      [] e = "buy_nfts" -> Ty("any")
      [] e = "withdraw_nfts" -> Ty("any")
      [] e = "get_user_actions" -> Ty("UserActionsResponse")

\* The body parameter a POST handler declares ("" for none).
PayloadModel(e) ==
    CASE e = "buy_nfts" -> "BuyPayload"
      [] e = "withdraw_nfts" -> "WithdrawPayload"
      [] OTHER -> ""

\* client.get or client.post.
UpstreamMethod(e) ==
    IF e \in {"buy_nfts", "withdraw_nfts"} THEN "POST" ELSE "GET"

\* The path handed to client.get / client.post.
UpstreamPath(e) ==
    CASE e = "get_config" -> "/market/config"
      [] e = "get_wallet_limits" -> "/users/wallets/limits"
      [] e = "get_wallet_history" -> "/users/wallets/history"
      [] e = "get_wallet_balance" -> "/users/wallets/"
      [] e = "list_nfts" -> "/nfts"
      [] e = "search_nfts" -> "/nfts/search"
      [] e = "get_backdrops" -> "/collections/filters/backdrops"
      [] e = "get_backdrops_floor" -> "/collections/filters/backdrops/floor"
      [] e = "buy_nfts" -> "/nfts"
      [] e = "withdraw_nfts" -> "/nfts/withdraw"
      [] e = "get_user_actions" -> "/users/actions/"

\* Accepted with `!= 200` in every handler.
AcceptedOnly200(e) == {200}

\* The statuses the handler's check lets through.
Accepted(e) ==
    IF e \in {"buy_nfts", "withdraw_nfts"} THEN {200, 201} ELSE {200}

\* The detail of the HTTPException the handler raises.
FailMessage(e) ==
    CASE e = "get_config" -> "Failed to fetch config"
      [] e = "get_wallet_limits" -> "Failed to fetch wallet limits"
      [] e = "get_wallet_history" -> "Failed to fetch wallet history"
      [] e = "get_wallet_balance" -> "Failed to fetch wallet balance"
      [] e = "list_nfts" -> "Failed to list NFTs"
      [] e = "search_nfts" -> "Failed to search NFTs"
      [] e = "get_backdrops" -> "Failed to fetch backdrops"
      [] e = "get_backdrops_floor" -> "Failed to fetch floor prices"
      [] e = "buy_nfts" -> "Failed to buy NFT(s)"
      [] e = "withdraw_nfts" -> "Failed to withdraw NFT(s)"
      [] e = "get_user_actions" -> "Failed to fetch user actions"

(***************************************************************************)
(* Query parameters.  A supplied value is <<v>>, an absent one (None) is   *)
(* <<>>.  IntParams gives each Query(default, ge=...) declaration.         *)
(***************************************************************************)
IntParams(e) ==
    CASE e = "get_wallet_history" ->
            [offset |-> [default |-> 0, ge |-> 0],
             limit |-> [default |-> 30, ge |-> 1]]
      [] e = "search_nfts" ->
            [offset |-> [default |-> 0, ge |-> 0],
             limit |-> [default |-> 20, ge |-> 1]]
      [] e = "get_user_actions" ->
            [offset |-> [default |-> 0, ge |-> 0],
             limit |-> [default |-> 20, ge |-> 1]]
      [] OTHER -> << >>

\* The Optional[str] parameters, whose default is None.
OptionalStrParams(e) ==
    CASE e = "get_wallet_history" -> {"types"}
      [] e = "search_nfts" ->
            {"filter_by_collections", "filter_by_backdrops",
             "filter_by_symbols", "filter_by_models"}
      [] OTHER -> {}

\* The str parameters with a default value.
DefaultStrParams(e) ==
    CASE e = "search_nfts" -> [sort_by |-> "price asc", status |-> "listed"]
      [] OTHER -> << >>

DeclaredParams(e) ==
    DOMAIN IntParams(e) \cup OptionalStrParams(e) \cup DOMAIN DefaultStrParams(e)

\* ValidQuery without the constraint on limit.
ValidQueryOffsetOnly(e, q) ==
    \A p \in DOMAIN IntParams(e) \ {"limit"} :
        q[p] = << >> \/ q[p][1] >= IntParams(e)[p].ge

\* The ge= constraints, checked before the handler is entered.
ValidQuery(e, q) ==
    \A p \in DOMAIN IntParams(e) :
        q[p] = << >> \/ q[p][1] >= IntParams(e)[p].ge

\* The handler's arguments: the supplied value, else the declared default.
BindArgs(e, q) ==
    [p \in DeclaredParams(e) |->
        IF q[p] # << >> THEN q[p]
        ELSE IF p \in DOMAIN IntParams(e) THEN << IntParams(e)[p].default >>
        ELSE IF p \in DOMAIN DefaultStrParams(e) THEN << DefaultStrParams(e)[p] >>
        ELSE << >>]

\* Truthy as `if x is not None:`.
TruthyNotNone(o) == o # << >>

\* `if x:` on an Optional[str]: neither None nor the empty string.
Truthy(o) == o # << >> /\ o[1] # ""

\* `if x: params["x"] = x`.
AddIf(params, key, o) ==
    IF Truthy(o) THEN (key :> o[1]) @@ params ELSE params

\* The params dict handed to client.get (the empty mapping when the call
\* passes none).
BuildParams(e, args) ==
    CASE e = "get_wallet_history" ->
            AddIf([offset |-> args.offset[1], limit |-> args.limit[1]],
                  "types", args.types)
      [] e = "search_nfts" ->
            AddIf(AddIf(AddIf(AddIf(
                [offset |-> args.offset[1], limit |-> args.limit[1],
                 sort_by |-> args.sort_by[1], status |-> args.status[1]],
                "filter_by_collections", args.filter_by_collections),
                "filter_by_backdrops", args.filter_by_backdrops),
                "filter_by_symbols", args.filter_by_symbols),
                "filter_by_models", args.filter_by_models)
      [] e = "get_user_actions" ->
            [offset |-> args.offset[1], limit |-> args.limit[1]]
      [] OTHER -> << >>

\* json=payload.dict() of a POST handler (null for a GET).
BuildJson(e, payload, ver) ==
    IF PayloadModel(e) = "" THEN JNull
    ELSE ValidateModel(PayloadModel(e), payload, ver).v

\* The request body is validated against the handler's payload model.
ValidPayload(e, payload, ver) ==
    PayloadModel(e) = "" \/ ValidateModel(PayloadModel(e), payload, ver).ok

(***************************************************************************)
(* State.                                                                  *)
(***************************************************************************)
VARIABLES
    client,     \* the module global: "None", "open" or "closed"
    lifespan,   \* the application: "created", "started" or "stopped"
    built,      \* how many times httpx.AsyncClient(...) was constructed
    closed,     \* how many times client.aclose() was called
    pydantic,   \* the installed pydantic major version, 1 or 2
    reqs        \* one record per inbound request

vars == << client, lifespan, built, closed, pydantic, reqs >>

NoCall ==
    [method |-> "", path |-> "", params |-> << >>, json |-> JNull,
     client |-> ""]

NoResp == [kind |-> "none", status |-> 0, body |-> JNull, error |-> ""]

NoOutcome ==
    [kind |-> "none", status |-> 0, detail |-> "", body |-> JNull,
     exc |-> ""]

Idle ==
    [pc |-> "idle", method |-> "", path |-> "", endpoint |-> "",
     query |-> << >>, payload |-> JNull, args |-> << >>,
     calls |-> 0, sent |-> NoCall, resp |-> NoResp,
     outcome |-> NoOutcome, outcomes |-> 0, overlapped |-> FALSE]

(***************************************************************************)
(* What the caller gets.                                                   *)
(***************************************************************************)
\* A parameter or body failing its declared constraints: the framework
\* answers 422 and the handler is not entered.
ValidationError ==
    [kind |-> "validation_error", status |-> 422, detail |-> "",
     body |-> JNull, exc |-> "RequestValidationError"]

\* The statuses whose answer may carry a body.
BodyAllowed(status) == ~(status < 200 \/ status \in {204, 205, 304})

\* HttpException with a fixed 502 in place of the upstream status.
HttpExceptionBadGateway(status, message) ==
    [kind |-> "http_exception", status |-> 502, detail |-> message,
     body |-> JObj([detail |-> JStr(message)]), exc |-> "HTTPException"]

\* raise HTTPException(resp.status_code, "<message>").  The answer carries
\* {"detail": message}, except under a status that allows no body.
HttpException(status, message) ==
    [kind |-> "http_exception", status |-> status, detail |-> message,
     body |-> IF BodyAllowed(status) THEN JObj([detail |-> JStr(message)])
              ELSE JNull,
     exc |-> "HTTPException"]

\* Any other exception leaving the handler: nothing in the source catches
\* it, and the server answers 500 Internal Server Error.
Unhandled(exc) ==
    [kind |-> "unhandled", status |-> 500,
     detail |-> "Internal Server Error", body |-> JNull, exc |-> exc]

\* return resp.json(), through the route's response_model.
Returned(e, body, ver) ==
    IF body = NotJson THEN Unhandled("JSONDecodeError")
    ELSE LET r == ValidateType(ResponseModel(e), body, ver)
         IN IF r.ok
            THEN [kind |-> "ok", status |-> 200, detail |-> "",
                  body |-> r.v, exc |-> ""]
            ELSE Unhandled("ResponseValidationError")

\* The handler from its await on: the await raises on a transport
\* failure; otherwise the status check, then the return.
HandlerResume(e, resp, ver) ==
    IF resp.kind = "transport" THEN Unhandled(resp.error)
    ELSE IF resp.status \notin Accepted(e)
    THEN HttpException(resp.status, FailMessage(e))
    ELSE Returned(e, resp.body, ver)

\* AwaitedResponse with resp kept in a slot shared by the handlers: the
\* slot of the request dispatched last.
AwaitedResponseShared(r, rs) ==
    rs[CHOOSE k \in DOMAIN rs :
          /\ rs[k].calls > 0
          /\ \A j \in DOMAIN rs : rs[j].calls > 0 => j <= k].resp

\* `resp = await client.get(...)`: resp is a local of the coroutine, bound
\* to the response to its own call.
AwaitedResponse(r, rs) == rs[r].resp

\* PcAfter with a retry of the upstream call after a failure.
PcAfterRetry(out) ==
    IF out.kind \in {"http_exception", "unhandled"} THEN "handling" ELSE "done"

\* A handler ends with its raise or return: it has no loop and no retry.
PcAfter(out) == "done"

\* ClientAfterDispatch with a handler that closes the client it used.
ClientClosedByHandler(c) == "closed"

\* No handler declares `global client`: a handler only reads it.
ClientAfterDispatch(c) == c

(***************************************************************************)
(* Actions.                                                                *)
(***************************************************************************)
\* startup_event.
Startup ==
    /\ lifespan = "created"
    /\ client' = "open"
    /\ built' = built + 1
    /\ lifespan' = "started"
    /\ UNCHANGED << closed, pydantic, reqs >>

\* shutdown_event, which the server runs after the requests in flight have
\* been answered.
Shutdown ==
    /\ lifespan = "started"
    /\ \A r \in DOMAIN reqs : reqs[r].pc \in {"idle", "done"}
    /\ client' = "closed"
    /\ closed' = closed + 1
    /\ lifespan' = "stopped"
    /\ UNCHANGED << built, pydantic, reqs >>

\* An inbound request: routing, then validation of the query parameters
\* and the body.  Requests are numbered in their order of arrival.
Receive(r, in) ==
    /\ lifespan = "started"
    /\ reqs[r].pc = "idle"
    /\ \A k \in DOMAIN reqs : k < r => reqs[k].pc # "idle"
    /\ Matching(in.method, in.path) # {}
    /\ LET e == MatchRoute(in.method, in.path)
           got == [reqs[r] EXCEPT !.method = in.method, !.path = in.path,
                                  !.endpoint = e, !.query = in.query,
                                  !.payload = in.payload]
       IN reqs' = [reqs EXCEPT ![r] =
             IF ValidQuery(e, in.query) /\ ValidPayload(e, in.payload, pydantic)
             THEN [got EXCEPT !.pc = "handling",
                              !.args = BindArgs(e, in.query)]
             ELSE [got EXCEPT !.pc = "done", !.outcome = ValidationError,
                              !.outcomes = @ + 1]]
    /\ UNCHANGED << client, lifespan, built, closed, pydantic >>

\* The handler up to its await: build the params, issue the upstream call.
\* A call on a client that is not open raises at once.
Dispatch(r) ==
    /\ reqs[r].pc = "handling"
    /\ LET e == reqs[r].endpoint
           call == [method |-> UpstreamMethod(e), path |-> UpstreamPath(e),
                    params |-> BuildParams(e, reqs[r].args),
                    json |-> BuildJson(e, reqs[r].payload, pydantic),
                    client |-> client]
       IN reqs' = [reqs EXCEPT ![r] =
             IF client = "open"
             THEN [@ EXCEPT !.pc = "awaiting", !.calls = @ + 1,
                            !.sent = call]
             ELSE [@ EXCEPT !.pc = "done", !.outcomes = @ + 1,
                            !.outcome = Unhandled(
                                IF client = "None" THEN "AttributeError"
                                ELSE "RuntimeError")]]
    /\ client' = ClientAfterDispatch(client)
    /\ UNCHANGED << lifespan, built, closed, pydantic >>

\* The other requests suspended in their own upstream call (recorded with
\* the outcome: whether the handler ran interleaved with another).
Others(r) == {k \in DOMAIN reqs \ {r} : reqs[k].pc = "awaiting"}

\* The handler resumed with what its await produced.
Resume(r, got) ==
    /\ reqs[r].pc = "awaiting"
    /\ LET rs == [reqs EXCEPT ![r].resp = got]
           out == HandlerResume(reqs[r].endpoint, AwaitedResponse(r, rs),
                                pydantic)
       IN reqs' = [rs EXCEPT ![r].outcome = out, ![r].outcomes = @ + 1,
                             ![r].pc = PcAfter(out),
                             ![r].overlapped = (Others(r) # {})]
    /\ UNCHANGED << client, lifespan, built, closed, pydantic >>

\* The upstream answers the call of request r.
Respond(r, status, body) ==
    Resume(r, [kind |-> "response", status |-> status, body |-> body,
               error |-> ""])

\* The upstream is unreachable, or the client's timeout expires.
TransportFail(r, err) ==
    Resume(r, [kind |-> "transport", status |-> 0, body |-> JNull,
               error |-> err])

(***************************************************************************)
(* The environment: the requests callers send and the bodies the upstream  *)
(* answers with.  Bodies are an example of each route's declared shape and *)
(* named variations of it.                                                 *)
(***************************************************************************)
Put(obj, f, v) == JObj((f :> v) @@ obj.fields)
Drop(obj, f) == JObj([g \in DOMAIN obj.fields \ {f} |-> obj.fields[g]])

AttributeExample ==
    JObj([type |-> JStr("Backdrop"), value |-> JStr("Onyx Black"),
          rarity_per_mille |-> JFloat("12.5")])

NFTInfoExample ==
    JObj([id |-> JStr("nft-1"), name |-> JStr("Plush Pepe"),
          photo_url |-> JStr("https://cdn/p.png"),
          collection_id |-> JStr("col-1"),
          external_collection_number |-> JInt("137"),
          status |-> JStr("listed"),
          animation_url |-> JStr("https://cdn/p.tgs"),
          has_animation |-> JBool(TRUE),
          attributes |-> JList(<< AttributeExample >>),
          emoji_id |-> JStr("5368"), is_owned |-> JBool(FALSE),
          floor_price |-> JStr("1.50")])

WalletActionExample(tag) ==
    JObj([type |-> JStr(tag), from_wallet |-> JStr("UQwallet"),
          added_at |-> JStr("2025-06-01T00:00:00Z"), amount |-> JStr("1.50"),
          tx_hash |-> JStr("hash"), tx_lt |-> JStr("lt"),
          balance_before |-> JStr("10.00"), balance_after |-> JStr("8.50"),
          related_entity_id |-> JStr("nft-1"),
          related_entity_type |-> JStr("nft"),
          description |-> JStr("purchase"), nft |-> NFTInfoExample])

NFTItemExample(tag) ==
    JObj([id |-> JStr(tag), tg_id |-> JStr("tg-1"),
          collection_id |-> JStr("col-1"),
          external_collection_number |-> JInt("137"),
          name |-> JStr("Plush Pepe"),
          photo_url |-> JStr("https://cdn/p.png"), price |-> JStr("1.50"),
          attributes |-> JList(<< AttributeExample >>),
          listed_at |-> JStr("2025-06-01T00:00:00Z"),
          status |-> JStr("listed"),
          animation_url |-> JStr("https://cdn/p.tgs"),
          emoji_id |-> JStr("5368"), has_animation |-> JBool(TRUE),
          unlocks_at |-> JStr("2025-07-01T00:00:00Z")])

BackdropExample(tag) ==
    JObj([name |-> JStr(tag), url |-> JStr("https://cdn/b.png"),
          centerColor |-> JInt("7"), edgeColor |-> JInt("7"),
          patternColor |-> JInt("7"), textColor |-> JInt("137"),
          rarityPermille |-> JFloat("1.5"),
          hex |-> JObj([centerColor |-> JStr("#000000")])])

UserActionExample(tag) ==
    JObj([initiator_user_id |-> JInt("137"), nft_id |-> JStr("nft-1"),
          offer_id |-> JStr("offer-1"), type |-> JStr(tag),
          amount |-> JStr("1.50"),
          created_at |-> JStr("2025-06-01T00:00:00Z"),
          referrer_revenue |-> JStr("0.01"), collection_id |-> JStr("col-1"),
          metadata |-> JObj([seller_revenue |-> JStr("1.40"),
                             cashback_amount |-> JStr("0.05")]),
          nft |-> NFTInfoExample])

ConfigExample ==
    JObj([commission |-> JStr("0.05"), user_cashback |-> JStr("0.01"),
          deposit_wallet |-> JStr("UQwallet"), usdt_course |-> JStr("3.10")])

WalletLimitsExample ==
    JObj([max_per_transaction |-> JStr("100.00"), max_daily |-> JStr("500.00"),
          daily_used |-> JStr("1.50"), daily_remaining |-> JStr("498.50")])

WalletBalanceExample ==
    JObj([balance |-> JStr("8.50"), frozen_funds |-> JStr("0.00")])

FloorPricesExample ==
    JObj([floorPrices |-> JObj([Black |-> JStr("1.50")])])

StatusExample(tag) == JObj([status |-> JStr(tag)])

BuyExample ==
    JObj([nft_details |->
            JList(<< JObj([id |-> JStr("abc"), price |-> JStr("1.50")]) >>)])

WithdrawExample == JObj([gift_ids |-> JList(<< JStr("gift-1") >>)])

\* The routes whose body carries a list of items.
ListRoutes ==
    {"get_wallet_history", "list_nfts", "search_nfts", "get_backdrops",
     "get_user_actions"}

ItemExample(e, tag) ==
    CASE e = "get_config" -> ConfigExample
      [] e = "get_wallet_limits" -> WalletLimitsExample
      [] e = "get_wallet_history" -> WalletActionExample(tag)
      [] e = "get_wallet_balance" -> WalletBalanceExample
      [] e = "list_nfts" -> NFTItemExample(tag)
      [] e = "search_nfts" -> NFTItemExample(tag)
      [] e = "get_backdrops" -> BackdropExample(tag)
      [] e = "get_backdrops_floor" -> FloorPricesExample
      [] e = "buy_nfts" -> StatusExample(tag)
      [] e = "withdraw_nfts" -> StatusExample(tag)
      [] e = "get_user_actions" -> UserActionExample(tag)

Wrap(e, items) ==
    CASE e \in {"get_wallet_history", "get_user_actions"} ->
            JObj([actions |-> JList(items)])
      [] e = "list_nfts" -> JObj([nfts |-> JList(items)])
      [] e = "search_nfts" -> JObj([results |-> JList(items)])
      [] e = "get_backdrops" -> JList(items)
      [] OTHER -> items[1]

\* An Optional[...] field of the route's items ("" when it has none).
OptionalField(e) ==
    CASE e = "get_wallet_history" -> "tx_hash"
      [] e \in {"list_nfts", "search_nfts"} -> "price"
      [] e = "get_user_actions" -> "offer_id"
      [] OTHER -> ""

\* A required field of the route's items.
RequiredField(e) ==
    CASE e = "get_config" -> "commission"
      [] e = "get_wallet_limits" -> "max_daily"
      [] e = "get_wallet_history" -> "amount"
      [] e = "get_wallet_balance" -> "balance"
      [] e \in {"list_nfts", "search_nfts"} -> "id"
      [] e = "get_backdrops" -> "name"
      [] e = "get_backdrops_floor" -> "floorPrices"
      [] e \in {"buy_nfts", "withdraw_nfts"} -> "status"
      [] e = "get_user_actions" -> "amount"

Variants(e) ==
    {"exemplar", "required_absent", "undeclared_field", "number_for_string",
     "not_json"}
    \cup (IF OptionalField(e) # "" THEN {"optional_null", "optional_absent"}
          ELSE {})
    \cup (IF e \in ListRoutes
          THEN {"empty_list", "two_items", "two_items_swapped"} ELSE {})

Body(e, variant) ==
    LET x == ItemExample(e, "a")
        y == ItemExample(e, "b")
    IN CASE variant = "exemplar" -> Wrap(e, << x >>)
         [] variant = "optional_null" ->
               Wrap(e, << Put(x, OptionalField(e), JNull) >>)
         [] variant = "optional_absent" ->
               Wrap(e, << Drop(x, OptionalField(e)) >>)
         [] variant = "required_absent" ->
               Wrap(e, << Drop(x, RequiredField(e)) >>)
         [] variant = "undeclared_field" ->
               Wrap(e, << Put(x, "undeclared", JStr("x")) >>)
         [] variant = "number_for_string" ->
               Wrap(e, << Put(x, RequiredField(e), JFloat("1.5")) >>)
         [] variant = "empty_list" -> Wrap(e, << >>)
         [] variant = "two_items" -> Wrap(e, << x, y >>)
         [] variant = "two_items_swapped" -> Wrap(e, << y, x >>)
         [] variant = "not_json" -> NotJson

\* The registration of an endpoint: where callers reach it.
RouteOf(e) == Routes[CHOOSE i \in DOMAIN Routes : Routes[i].endpoint = e]

InputFor(e, q, payload) ==
    [method |-> RouteOf(e).method, path |-> RouteOf(e).path,
     query |-> q, payload |-> payload]

AbsentQuery(e) == [p \in DeclaredParams(e) |-> << >>]

SamplePayload(e) ==
    CASE e = "buy_nfts" -> BuyExample
      [] e = "withdraw_nfts" -> WithdrawExample
      [] OTHER -> JNull

OffsetValues == {<< >>, << -1 >>, << 0 >>, << 7 >>}
LimitValues == {<< >>, << 0 >>, << 1 >>}
FilterValues == {<< >>, << "" >>, << "a,b" >>}
SortValues == {<< >>, << "" >>, << "price desc" >>}
StatusValues == {<< >>, << "sold" >>}

Queries(e) ==
    CASE e = "get_wallet_history" ->
            {[offset |-> o, limit |-> l, types |-> t] :
                o \in OffsetValues, l \in LimitValues, t \in FilterValues}
      [] e = "search_nfts" ->
            {[offset |-> o, limit |-> l, filter_by_collections |-> c,
              filter_by_backdrops |-> b, filter_by_symbols |-> y,
              filter_by_models |-> m, sort_by |-> s, status |-> u] :
                o \in OffsetValues, l \in LimitValues, c \in FilterValues,
                b \in FilterValues, y \in FilterValues, m \in FilterValues,
                s \in SortValues, u \in StatusValues}
      [] e = "get_user_actions" ->
            {[offset |-> o, limit |-> l] :
                o \in OffsetValues, l \in LimitValues}
      [] OTHER -> {<< >>}

Payloads(e) ==
    IF PayloadModel(e) = "" THEN {JNull}
    ELSE {SamplePayload(e), JObj(<< >>)}

\* Spec: the two mutating routes and four of the GET routes, each with no
\* parameters, and one request that fails validation.
MainEndpoints ==
    {"buy_nfts", "withdraw_nfts", "search_nfts", "get_wallet_history",
     "get_user_actions", "get_config"}

MainInputs ==
    {InputFor(e, AbsentQuery(e), SamplePayload(e)) : e \in MainEndpoints}
    \cup {InputFor("get_wallet_history",
                   [AbsentQuery("get_wallet_history") EXCEPT !.offset = << -1 >>],
                   JNull)}

MainStatuses == {200, 404}
MainErrors == {"ReadTimeout"}

AllStatuses == {200, 201, 204, 404, 500}
AllErrors == {"ConnectError", "ReadTimeout"}

Awaiting == {r \in DOMAIN reqs : reqs[r].pc = "awaiting"}

\* The request numbers the next arrival can take.
Arriving ==
    {r \in DOMAIN reqs : lifespan = "started" /\ reqs[r].pc = "idle"}

(***************************************************************************)
(* Specifications.  Spec handles MaxReq requests concurrently.  SpecQuery  *)
(* and SpecBody handle one request, drawn from every combination of query  *)
(* parameters and from every body variation.                               *)
(***************************************************************************)
Init ==
    /\ client = "None"
    /\ lifespan = "created"
    /\ built = 0
    /\ closed = 0
    /\ pydantic \in {1, 2}
    /\ reqs = [r \in 1..MaxReq |-> Idle]

InitSingle ==
    /\ client = "None"
    /\ lifespan = "created"
    /\ built = 0
    /\ closed = 0
    /\ pydantic \in {1, 2}
    /\ reqs = [r \in {1} |-> Idle]

Next ==
    \/ Startup
    \/ Shutdown
    \/ \E r \in Arriving, in \in MainInputs : Receive(r, in)
    \/ \E r \in DOMAIN reqs : Dispatch(r)
    \/ \E r \in Awaiting, s \in MainStatuses :
          Respond(r, s, Body(reqs[r].endpoint, "exemplar"))
    \/ \E r \in Awaiting, err \in MainErrors : TransportFail(r, err)

NextQuery ==
    \/ Startup
    \/ Shutdown
    \/ \E r \in Arriving, e \in Endpoints :
          \E q \in Queries(e), p \in Payloads(e) : Receive(r, InputFor(e, q, p))
    \/ \E r \in DOMAIN reqs : Dispatch(r)
    \/ \E r \in Awaiting, s \in MainStatuses :
          Respond(r, s, Body(reqs[r].endpoint, "exemplar"))
    \/ \E r \in Awaiting, err \in MainErrors : TransportFail(r, err)

NextBody ==
    \/ Startup
    \/ Shutdown
    \/ \E r \in Arriving, e \in Endpoints :
          Receive(r, InputFor(e, AbsentQuery(e), SamplePayload(e)))
    \/ \E r \in DOMAIN reqs : Dispatch(r)
    \/ \E r \in Awaiting, s \in AllStatuses :
          \E v \in Variants(reqs[r].endpoint) :
              Respond(r, s, Body(reqs[r].endpoint, v))
    \/ \E r \in Awaiting, err \in AllErrors : TransportFail(r, err)

Spec == Init /\ [][Next]_vars

SpecQuery == InitSingle /\ [][NextQuery]_vars

SpecBody == InitSingle /\ [][NextBody]_vars

(***************************************************************************)
(* Properties.                                                             *)
(***************************************************************************)
Seen == {r \in DOMAIN reqs : reqs[r].pc # "idle"}
Done == {r \in DOMAIN reqs : reqs[r].pc = "done"}
Called == {r \in DOMAIN reqs : reqs[r].calls > 0}
Answered == {r \in Done : reqs[r].resp.kind = "response"}

Supplied(q, p) == p \in DOMAIN q /\ q[p] # << >>

PaginatedPaths ==
    {"/market/wallets/history", "/market/nfts/search", "/market/users/actions"}

BadPagination(q) ==
    \/ Supplied(q, "offset") /\ q.offset[1] < 0
    \/ Supplied(q, "limit") /\ q.limit[1] < 1

\* C1: on the three routes taking offset/limit, a request whose offset is
\* negative or whose limit is below 1 is answered with the local validation
\* error (422) and no upstream call is issued for it.
C1_BadPaginationRejectedLocally ==
    \A r \in Seen :
        (reqs[r].method = "GET" /\ reqs[r].path \in PaginatedPaths
            /\ BadPagination(reqs[r].query))
        => /\ reqs[r].pc = "done"
           /\ reqs[r].outcome.kind = "validation_error"
           /\ reqs[r].outcome.status = 422
           /\ reqs[r].calls = 0
           /\ reqs[r].sent = NoCall

\* C1 witness: a search request with limit 0 (and a valid offset) has been
\* rejected.
C1_Witness ==
    \E r \in Done :
        /\ reqs[r].path = "/market/nfts/search"
        /\ reqs[r].query.limit = << 0 >>
        /\ reqs[r].query.offset = << 7 >>
        /\ reqs[r].outcome.kind = "validation_error"

MutatingRequest(r) ==
    /\ reqs[r].method = "POST"
    /\ reqs[r].path \in {"/market/nfts/buy", "/market/nfts/withdraw"}

ClaimedAccepted(r) == IF MutatingRequest(r) THEN {200, 201} ELSE {200}

\* C3: the accepted set is {200, 201} for POST /nfts/buy and /nfts/withdraw
\* and {200} for every GET route: a status outside it fails with the
\* handler's error, a status inside it never does, and buy/withdraw return
\* the decoded upstream body on 200 and on 201.
C3_AcceptedStatusSets ==
    \A r \in Answered :
        /\ reqs[r].resp.status \notin ClaimedAccepted(r)
              => reqs[r].outcome.kind = "http_exception"
        /\ reqs[r].resp.status \in ClaimedAccepted(r)
              => reqs[r].outcome.kind # "http_exception"
        /\ (MutatingRequest(r) /\ reqs[r].resp.status \in {200, 201}
                /\ reqs[r].resp.body # NotJson)
              => /\ reqs[r].outcome.kind = "ok"
                 /\ reqs[r].outcome.body = reqs[r].resp.body

\* C3 witness: a buy answered 201 {"status": "a"} succeeded with that body.
C3_Witness ==
    \E r \in Answered :
        /\ reqs[r].path = "/market/nfts/buy"
        /\ reqs[r].resp.status = 201
        /\ reqs[r].outcome.kind = "ok"
        /\ reqs[r].outcome.body = StatusExample("a")

\* C4: when the upstream call produces no response (unreachable, timed
\* out), the handler answers with an upstream error carrying a gateway or
\* timeout status, not with an unhandled failure.
C4_TransportFailureMapped ==
    \A r \in Done :
        reqs[r].resp.kind = "transport"
        => /\ reqs[r].outcome.kind = "http_exception"
           /\ reqs[r].outcome.status \in {502, 503, 504}

FilterNames ==
    {"filter_by_collections", "filter_by_backdrops", "filter_by_symbols",
     "filter_by_models", "types"}

AlwaysSent(path) ==
    IF path = "/market/nfts/search"
    THEN {"offset", "limit", "sort_by", "status"}
    ELSE {"offset", "limit"}

\* C5: in the upstream query of /nfts/search and /wallets/history, a filter
\* is a parameter exactly when the caller supplied a non-empty value, with
\* that value; offset and limit (and for search sort_by and status, "price
\* asc" and "listed" by default) are always sent.
C5_FiltersSentIffNonEmpty ==
    \A r \in Called :
        reqs[r].path \in {"/market/nfts/search", "/market/wallets/history"}
        => LET q == reqs[r].query
               sent == reqs[r].sent.params
           IN /\ \A f \in FilterNames :
                    /\ f \in DOMAIN sent <=> (Supplied(q, f) /\ q[f][1] # "")
                    /\ f \in DOMAIN sent => sent[f] = q[f][1]
              /\ AlwaysSent(reqs[r].path) \subseteq DOMAIN sent
              /\ DOMAIN sent \subseteq AlwaysSent(reqs[r].path) \cup FilterNames
              /\ \A p \in AlwaysSent(reqs[r].path) :
                    Supplied(q, p) => sent[p] = q[p][1]
              /\ (reqs[r].path = "/market/nfts/search" /\ ~Supplied(q, "sort_by"))
                    => sent.sort_by = "price asc"
              /\ (reqs[r].path = "/market/nfts/search" /\ ~Supplied(q, "status"))
                    => sent.status = "listed"

\* C5 witness: a search was dispatched with one filter empty, one absent and
\* one supplied, and only the supplied one is in the upstream query.
C5_Witness ==
    \E r \in Called :
        /\ reqs[r].path = "/market/nfts/search"
        /\ reqs[r].query.filter_by_models = << "" >>
        /\ reqs[r].query.filter_by_backdrops = << >>
        /\ reqs[r].query.filter_by_symbols = << "a,b" >>
        /\ "filter_by_models" \notin DOMAIN reqs[r].sent.params
        /\ reqs[r].sent.params.filter_by_symbols = "a,b"

UpstreamFailed(r) ==
    \/ reqs[r].resp.kind = "transport"
    \/ reqs[r].resp.kind = "response"
          /\ reqs[r].resp.status \notin ClaimedAccepted(r)

\* C6: a request that passes validation issues exactly one upstream call and
\* then gets exactly one answer; a request that fails validation issues
\* none; no request reaches the upstream twice, whatever the upstream did.
C6_OneCallOneOutcome ==
    \A r \in DOMAIN reqs :
        /\ reqs[r].calls <= 1
        /\ reqs[r].outcomes <= 1
        /\ reqs[r].pc \in {"idle", "handling"}
              => reqs[r].calls = 0 /\ reqs[r].outcomes = 0
        /\ reqs[r].pc = "awaiting"
              => reqs[r].calls = 1 /\ reqs[r].outcomes = 0
        /\ reqs[r].pc = "done"
              => /\ reqs[r].outcomes = 1
                 /\ reqs[r].calls =
                       IF reqs[r].outcome.kind = "validation_error" THEN 0 ELSE 1
        /\ (reqs[r].resp.kind # "none" /\ UpstreamFailed(r))
              => reqs[r].pc = "done"

\* C6 witness: a buy whose call timed out and a withdraw answered 404 are
\* both finished after one call each.
C6_Witness ==
    \E r1, r2 \in Done :
        /\ reqs[r1].endpoint = "buy_nfts"
        /\ reqs[r1].resp.kind = "transport"
        /\ reqs[r1].calls = 1
        /\ reqs[r2].endpoint = "withdraw_nfts"
        /\ reqs[r2].resp.status = 404
        /\ reqs[r2].calls = 1

\* C7: the shared client is constructed once, by the startup hook, and
\* closed once, by the shutdown hook; it is open for as long as requests are
\* served, and every upstream call was issued on the open client.
C7_ClientLifecycle ==
    /\ built <= 1 /\ closed <= 1
    /\ lifespan = "created" => client = "None" /\ built = 0 /\ closed = 0
    /\ lifespan = "started" => client = "open" /\ built = 1 /\ closed = 0
    /\ lifespan = "stopped" => client = "closed" /\ built = 1 /\ closed = 1
    /\ \A r \in Called : reqs[r].sent.client = "open"
    /\ \A r \in DOMAIN reqs :
          reqs[r].pc \in {"handling", "awaiting"} => client = "open"

\* C7 witness: the application has stopped after serving two requests that
\* each reached the upstream.
C7_Witness ==
    /\ lifespan = "stopped"
    /\ \E r1, r2 \in Called : r1 # r2

\* The interface table: local path -> upstream method and path.
InterfaceTable ==
    [p \in {Routes[i].path : i \in DOMAIN Routes} |->
        CASE p = "/market/config" -> << "GET", "GET", "/market/config" >>
          [] p = "/market/wallets/limits" -> << "GET", "GET", "/users/wallets/limits" >>
          [] p = "/market/wallets/history" -> << "GET", "GET", "/users/wallets/history" >>
          [] p = "/market/wallets/balance" -> << "GET", "GET", "/users/wallets/" >>
          [] p = "/market/nfts" -> << "GET", "GET", "/nfts" >>
          [] p = "/market/nfts/search" -> << "GET", "GET", "/nfts/search" >>
          [] p = "/market/collections/backdrops" ->
                << "GET", "GET", "/collections/filters/backdrops" >>
          [] p = "/market/collections/backdrops/floor" ->
                << "GET", "GET", "/collections/filters/backdrops/floor" >>
          [] p = "/market/nfts/buy" -> << "POST", "POST", "/nfts" >>
          [] p = "/market/nfts/withdraw" -> << "POST", "POST", "/nfts/withdraw" >>
          [] p = "/market/users/actions" -> << "GET", "GET", "/users/actions/" >>
          [] OTHER -> << "", "", "" >>]

\* C8: every route forwards to the upstream method and path of the
\* interface table, and the (method, local path) of a request has exactly
\* one handler registration.
C8_TableAndSingleRegistration ==
    \A r \in Seen :
        /\ reqs[r].method = InterfaceTable[reqs[r].path][1]
        /\ r \in Called
              => /\ reqs[r].sent.method = InterfaceTable[reqs[r].path][2]
                 /\ reqs[r].sent.path = InterfaceTable[reqs[r].path][3]
        /\ Cardinality(Matching(reqs[r].method, reqs[r].path)) = 1

RECURSIVE WellFormed(_, _)

\* A body of the declared shape: each declared field of the declared JSON
\* kind, an Optional field a value, null or absent, nothing undeclared.
WellFormed(T, v) ==
    IF v.t = "null" THEN T.opt \/ (T.k = "any" /\ ~T.list)
    ELSE IF T.list
    THEN v.t = "list"
         /\ \A i \in DOMAIN v.items : WellFormed(Ty(T.k), v.items[i])
    ELSE IF T.k = "any" THEN v.t # "notjson"
    ELSE IF T.k = "dict" THEN v.t = "obj"
    ELSE IF T.k \in ScalarKinds THEN v.t = T.k
    ELSE /\ v.t = "obj"
         /\ DOMAIN v.fields \subseteq DOMAIN Fields(T.k)
         /\ \A f \in DOMAIN Fields(T.k) :
               IF f \in DOMAIN v.fields
               THEN WellFormed(Fields(T.k)[f], v.fields[f])
               ELSE Fields(T.k)[f].opt

\* C9: an accepted upstream status with a body well-formed for the route's
\* declared shape is answered with that same body: optional fields null or
\* absent as received, lists in the upstream order, strings as strings.
C9_BodyRoundTrip ==
    \A r \in Answered :
        (reqs[r].resp.status \in Accepted(reqs[r].endpoint)
            /\ WellFormed(ResponseModel(reqs[r].endpoint), reqs[r].resp.body))
        => /\ reqs[r].outcome.kind = "ok"
           /\ reqs[r].outcome.body = reqs[r].resp.body

\* C10: whatever the interleaving, two requests with the same route, the
\* same parameters and the same upstream response to their own call have the
\* same outcome: an outcome depends on nothing another request did.
C10_OutcomeOfOwnCallOnly ==
    \A r1, r2 \in Done :
        (/\ reqs[r1].method = reqs[r2].method
         /\ reqs[r1].path = reqs[r2].path
         /\ reqs[r1].query = reqs[r2].query
         /\ reqs[r1].payload = reqs[r2].payload
         /\ reqs[r1].resp = reqs[r2].resp)
        => reqs[r1].outcome = reqs[r2].outcome

\* C10 witness: two buys got the same upstream response, one resumed while
\* the other was suspended in its call and one resumed alone, and both have
\* the same outcome.
C10_Witness ==
    \E r1, r2 \in Done :
        /\ r1 # r2
        /\ reqs[r1].endpoint = "buy_nfts" /\ reqs[r2].endpoint = "buy_nfts"
        /\ reqs[r1].resp.kind = "response"
        /\ reqs[r1].resp = reqs[r2].resp
        /\ reqs[r1].overlapped /\ ~reqs[r2].overlapped
        /\ reqs[r1].outcome = reqs[r2].outcome

====
